---- MODULE Spec2Model ----
(***************************************************************************)
(* Model of the "Merge Duplicate Contacts" workflow                        *)
(* (src/unnamed/part_002): the Code nodes Find Duplicates, Build Merge     *)
(* Plan, Limit to Test Set, Build Backup CSV and Build Report, translated  *)
(* statement by statement, and the nodes Execute on Notion and Combine     *)
(* Results between them.                                                   *)
(*                                                                         *)
(* JavaScript values are tagged records [t, v]: undefined, null, strings   *)
(* (v = the sequence of characters) and arrays (v = the elements).         *)
(* A number that may be NaN is a sequence: <<>> is NaN, <<n>> is n.        *)
(* The page url is carried unchanged next to the id and is left out.       *)
(* FIELD_MAP keeps one entry per apiType the merge distinguishes (email,   *)
(* rich_text, select, multi_select), the entry Build Backup CSV has no     *)
(* column for (street_address_2), and RELATION_FIELDS keeps one relation;  *)
(* the other entries go through the same loop bodies.                      *)
(*                                                                         *)
(* Specifications: Spec and Merging run the workflow up to Build Merge     *)
(* Plan on families of snapshots, Pipeline runs all of it, with reads that *)
(* fail and requests the store rejects, and Sampler runs Limit to Test Set *)
(* on arbitrary lists of mutation items.                                   *)
(***************************************************************************)
EXTENDS Integers, Sequences, FiniteSets, TLC

VARIABLES pc, store, items, plan, mutations, limited, backup, responses, combined, report,
          attempts

vars == <<pc, store, items, plan, mutations, limited, backup, responses, combined, report,
          attempts>>

\* what the nodes after Build Merge Plan hold
later == <<limited, backup, responses, combined, report, attempts>>

\* ------------------------------------------------------------------------
\* Bounds of the model
\* ------------------------------------------------------------------------
MaxRecords == 3
MaxTime == 2

\* ------------------------------------------------------------------------
\* JavaScript values
\* ------------------------------------------------------------------------
Undefined == [t |-> "undefined", v |-> <<>>]
Null == [t |-> "null", v |-> <<>>]
Str(s) == [t |-> "string", v |-> s]
Arr(a) == [t |-> "array", v |-> a]
NaN == <<>>

Range(s) == {s[i] : i \in 1..Len(s)}

RECURSIVE TrimStart(_)
TrimStart(s) ==
  IF s # <<>> /\ Head(s) = " " THEN TrimStart(Tail(s)) ELSE s

RECURSIVE TrimEnd(_)
TrimEnd(s) ==
  IF s # <<>> /\ s[Len(s)] = " " THEN TrimEnd(SubSeq(s, 1, Len(s) - 1)) ELSE s

\* String.prototype.trim
Trim(s) == TrimEnd(TrimStart(s))

LowerChar(c) ==
  CASE c = "A" -> "a"
    [] c = "B" -> "b"
    [] OTHER -> c

\* String.prototype.toLowerCase
ToLowerCase(s) == [i \in 1..Len(s) |-> LowerChar(s[i])]

\* JavaScript truthiness of a value, as the || operator tests it
Truthy(val) ==
  CASE val.t = "undefined" -> FALSE
    [] val.t = "null" -> FALSE
    [] val.t = "string" -> val.v # <<>>
    [] OTHER -> TRUE

\* a || b
OrElse(a, b) == IF Truthy(a) THEN a ELSE b

\* a ?? b
Coalesce(a, b) == IF a.t \in {"undefined", "null"} THEN b ELSE a

\* mutant: a string of blanks counts as a value
hasValue_NoTrim(val) ==
  IF val.t \in {"null", "undefined"} THEN FALSE
  ELSE IF val.t = "string" /\ val.v = <<>> THEN FALSE
  ELSE IF val.t = "array" /\ Len(val.v) = 0 THEN FALSE
  ELSE TRUE

hasValue(val) ==
  IF val.t \in {"null", "undefined"} THEN FALSE
  ELSE IF val.t = "string" /\ Trim(val.v) = <<>> THEN FALSE
  ELSE IF val.t = "array" /\ Len(val.v) = 0 THEN FALSE
  ELSE TRUE

\* new Date(created_time).getTime(): the instant of an ISO string, NaN for
\* a missing (undefined) created_time
DateGetTime(ct) == IF ct.t = "string" THEN ct.v ELSE NaN

\* ------------------------------------------------------------------------
\* Configuration
\* ------------------------------------------------------------------------
FIELD_MAP == <<
  [key |-> "email", prop |-> "Email", notionKey |-> "property_email", apiType |-> "email"],
  [key |-> "first_name", prop |-> "First name", notionKey |-> "property_first_name", apiType |-> "rich_text"],
  [key |-> "email_marketing", prop |-> "Email Marketing", notionKey |-> "property_email_marketing", apiType |-> "select"],
  [key |-> "tags", prop |-> "Tags", notionKey |-> "property_tags", apiType |-> "multi_select"],
  [key |-> "street_address_2", prop |-> "Address Line 2", notionKey |-> "property_address_line_2", apiType |-> "rich_text"] >>

RELATION_FIELDS == << [prop |-> "Papers", key |-> "property_papers"] >>

\* ------------------------------------------------------------------------
\* Array.prototype.sort as Node's V8 runs it on an array shorter than 64:
\* one run is counted from the front (reversed when strictly descending)
\* and the rest is inserted by binary insertion.  c[i][j] is the comparator
\* applied to the elements at the original positions i and j, with a NaN
\* result taken as 0; the result lists the original positions.
\* ------------------------------------------------------------------------
Reverse(s) == [i \in 1..Len(s) |-> s[Len(s) + 1 - i]]

RECURSIVE CountRun(_, _, _, _, _)
CountRun(a, c, idx, desc, run) ==
  IF idx > Len(a) THEN run
  ELSE LET order == c[a[idx]][a[idx - 1]]
       IN IF (desc /\ order >= 0) \/ (~desc /\ order < 0) THEN run
          ELSE CountRun(a, c, idx + 1, desc, run + 1)

CountAndMakeRun(a, c) ==
  IF Len(a) = 1 THEN [run |-> 1, arr |-> a]
  ELSE LET desc == c[a[2]][a[1]] < 0
           run == CountRun(a, c, 3, desc, 2)
       IN [run |-> run,
           arr |-> IF desc
                   THEN Reverse(SubSeq(a, 1, run)) \o SubSeq(a, run + 1, Len(a))
                   ELSE a]

RECURSIVE BinarySearch(_, _, _, _, _)
BinarySearch(a, c, pivot, left, right) ==
  IF left >= right THEN left
  ELSE LET mid == left + ((right - left) \div 2)
       IN IF c[pivot][a[mid]] < 0
          THEN BinarySearch(a, c, pivot, left, mid)
          ELSE BinarySearch(a, c, pivot, mid + 1, right)

RECURSIVE BinaryInsertionSort(_, _, _)
BinaryInsertionSort(a, c, start) ==
  IF start > Len(a) THEN a
  ELSE LET pivot == a[start]
           left == BinarySearch(a, c, pivot, 1, start)
           moved == SubSeq(a, 1, left - 1) \o <<pivot>> \o SubSeq(a, left, start - 1)
                      \o SubSeq(a, start + 1, Len(a))
       IN BinaryInsertionSort(moved, c, start + 1)

ArraySort(n, c) ==
  LET a == [i \in 1..n |-> i]
  IN IF n < 2 THEN a
     ELSE LET r == CountAndMakeRun(a, c)
          IN IF r.run < n THEN BinaryInsertionSort(r.arr, c, r.run + 1) ELSE r.arr

\* (a, b) => new Date(a.created_time) - new Date(b.created_time), as the
\* sort reads it: the sign of the difference, 0 when the difference is NaN
ByCreatedTime(a, b) ==
  LET ta == DateGetTime(a.created_time)
      tb == DateGetTime(b.created_time)
  IN IF ta = NaN \/ tb = NaN THEN 0 ELSE ta[1] - tb[1]

\* records.sort((a, b) => new Date(a.created_time) - new Date(b.created_time))
SortByCreatedTime(records) ==
  LET n == Len(records)
      c == [i \in 1..n |-> [j \in 1..n |-> ByCreatedTime(records[i], records[j])]]
      order == ArraySort(n, c)
  IN [k \in 1..n |-> records[order[k]]]

\* ------------------------------------------------------------------------
\* Find Duplicates
\* ------------------------------------------------------------------------

\* raw.map(p => typeof p === 'string' ? p : (p && p.id ? p.id : null))
\*    .filter(Boolean), raw = j[rel.key] || []
\* An element is a string or an object; v is the string, or the object's
\* id, "" for the empty string and for an object without an id.
RelationIds(raw) ==
  LET arr == IF raw.t = "array" THEN raw.v ELSE <<>>
      ids == [i \in 1..Len(arr) |-> arr[i].v]
  IN SelectSeq(ids, LAMBDA id : id # "")

\* mutant: the key is trimmed but keeps its letter case
NormalizedEmail_NoLowerCase(j) ==
  Trim(OrElse(OrElse(j.property_email, j.property_identifier), Str(<<>>)).v)

\* (j.property_email || j.property_identifier || '').toString().trim().toLowerCase()
NormalizedEmail(j) ==
  ToLowerCase(Trim(OrElse(OrElse(j.property_email, j.property_identifier), Str(<<>>)).v))

\* the record object built for one item
ParseContact(j) ==
  [id |-> j.id,
   created_time |-> j.property_created_time,
   email |-> NormalizedEmail(j),
   property_email |-> Coalesce(j.property_email, Null),
   property_first_name |-> Coalesce(j.property_first_name, Null),
   property_email_marketing |-> Coalesce(j.property_email_marketing, Null),
   property_tags |-> Coalesce(j.property_tags, Null),
   property_address_line_2 |-> Coalesce(j.property_address_line_2, Null),
   property_papers |-> RelationIds(j.property_papers)]

\* if (!j.id || (j.property_email === undefined && j.property_identifier === undefined)) continue;
Skipped(j) == j.property_email = Undefined /\ j.property_identifier = Undefined

ParseContacts(allItems) ==
  LET kept == SelectSeq(allItems, LAMBDA j : ~Skipped(j))
  IN [i \in 1..Len(kept) |-> ParseContact(kept[i])]

\* mutant: a contact with an empty email is filed like the others
RECURSIVE EmailKeys_KeepEmpty(_, _)
EmailKeys_KeepEmpty(contacts, seen) ==
  IF contacts = <<>> THEN seen
  ELSE LET e == Head(contacts).email
       IN IF e \in Range(seen)
          THEN EmailKeys_KeepEmpty(Tail(contacts), seen)
          ELSE EmailKeys_KeepEmpty(Tail(contacts), Append(seen, e))

\* the keys of byEmail in insertion order: the non-empty emails, each at
\* its first occurrence
RECURSIVE EmailKeys(_, _)
EmailKeys(contacts, seen) ==
  IF contacts = <<>> THEN seen
  ELSE LET e == Head(contacts).email
       IN IF e = <<>> \/ e \in Range(seen)
          THEN EmailKeys(Tail(contacts), seen)
          ELSE EmailKeys(Tail(contacts), Append(seen, e))

\* mutant: every contact is filed under every email
ByEmail_All(contacts, email) == contacts

\* byEmail.get(email): the contacts of one email in input order
ByEmail(contacts, email) == SelectSeq(contacts, LAMBDA c : c.email = email)

\* mutant: the sources are a copy of all records, destination included
MakeGroup_SourcesKeepDest(email, records) ==
  [email |-> email,
   dest |-> SortByCreatedTime(records)[1],
   sources |-> SortByCreatedTime(records),
   allRecords |-> SortByCreatedTime(records)]

\* one entry of duplicateGroups
MakeGroup(email, records) ==
  LET sorted == SortByCreatedTime(records)
  IN [email |-> email,
      dest |-> sorted[1],
      sources |-> Tail(sorted),
      allRecords |-> sorted]

RECURSIVE DuplicateGroups(_, _)
DuplicateGroups(contacts, keys) ==
  IF keys = <<>> THEN <<>>
  ELSE LET records == ByEmail(contacts, Head(keys))
           rest == DuplicateGroups(contacts, Tail(keys))
       IN IF Len(records) < 2 THEN rest
          ELSE <<MakeGroup(Head(keys), records)>> \o rest

RECURSIVE AllSourceIds(_)
AllSourceIds(groups) ==
  IF groups = <<>> THEN <<>>
  ELSE [i \in 1..Len(Head(groups).sources) |-> Head(groups).sources[i].id]
         \o AllSourceIds(Tail(groups))

\* the items Find Duplicates returns: none, or the one duplicate_plan item
findDuplicates(allItems) ==
  LET contacts == ParseContacts(allItems)
      duplicateGroups == DuplicateGroups(contacts, EmailKeys(contacts, <<>>))
  IN IF Len(duplicateGroups) = 0 THEN <<>>
     ELSE << [type |-> "duplicate_plan",
              groups |-> duplicateGroups,
              sourceIds |-> AllSourceIds(duplicateGroups)] >>

\* ------------------------------------------------------------------------
\* Build Merge Plan
\* ------------------------------------------------------------------------

\* String(value) of a string is the string
toNotionProp(apiType, value) ==
  CASE apiType = "title" -> [t |-> "title", v |-> value.v]
    [] apiType = "rich_text" -> [t |-> "rich_text", v |-> value.v]
    [] apiType = "email" -> [t |-> "email", v |-> value.v]
    [] apiType = "phone_number" -> [t |-> "phone_number", v |-> value.v]
    [] apiType = "select" -> [t |-> "select", v |-> value.v]
    [] apiType = "multi_select" ->
         [t |-> "multi_select", v |-> IF value.t = "array" THEN value.v ELSE <<value.v>>]

\* mutant: the elements are appended without looking for them in the set
SetAddAll_NoDedup(set, elems) == set \o elems

\* a JavaScript Set, in insertion order, after set.add of every element
RECURSIVE SetAddAll(_, _)
SetAddAll(set, elems) ==
  IF elems = <<>> THEN set
  ELSE SetAddAll(IF Head(elems) \in Range(set) THEN set ELSE Append(set, Head(elems)),
                 Tail(elems))

\* mutant: the array is taken as it is, repeated entries included
NewSet_NoDedup(elems) == elems

\* new Set(array)
NewSet(elems) == SetAddAll(<<>>, elems)

\* Tags: set union across all records
RECURSIVE AllTags(_, _, _)
AllTags(allRecords, notionKey, allTags) ==
  IF allRecords = <<>> THEN allTags
  ELSE LET val == Head(allRecords)[notionKey]
       IN AllTags(Tail(allRecords), notionKey,
                  IF val.t = "array" THEN SetAddAll(allTags, val.v) ELSE allTags)

\* mutant: a record as new as the newest so far replaces its value
RECURSIVE UnitaryLoop_NewerOrEqual(_, _, _, _)
UnitaryLoop_NewerOrEqual(allRecords, notionKey, dest, acc) ==
  IF allRecords = <<>> THEN acc
  ELSE LET rec == Head(allRecords)
           val == rec[notionKey]
           recTime == DateGetTime(rec.created_time)
           newer == \/ acc.newestTime = <<>>
                    \/ /\ recTime # NaN
                       /\ acc.newestTime[1] # NaN
                       /\ recTime[1] >= acc.newestTime[1][1]
       IN UnitaryLoop_NewerOrEqual(Tail(allRecords), notionKey, dest,
                      IF hasValue(val) /\ newer
                      THEN [finalVal |-> val,
                            newestTime |-> <<recTime>>,
                            mergedFrom |-> IF rec.id # dest.id THEN <<rec.id>> ELSE <<>>]
                      ELSE acc)

\* Unitary fields: the loop over allRecords; newestTime is <<>> for null,
\* <<recTime>> once set, where recTime may itself be NaN
RECURSIVE UnitaryLoop(_, _, _, _)
UnitaryLoop(allRecords, notionKey, dest, acc) ==
  IF allRecords = <<>> THEN acc
  ELSE LET rec == Head(allRecords)
           val == rec[notionKey]
           recTime == DateGetTime(rec.created_time)
           newer == \/ acc.newestTime = <<>>
                    \/ /\ recTime # NaN
                       /\ acc.newestTime[1] # NaN
                       /\ recTime[1] > acc.newestTime[1][1]
       IN UnitaryLoop(Tail(allRecords), notionKey, dest,
                      IF hasValue(val) /\ newer
                      THEN [finalVal |-> val,
                            newestTime |-> <<recTime>>,
                            mergedFrom |-> IF rec.id # dest.id THEN <<rec.id>> ELSE <<>>]
                      ELSE acc)

UnitaryMerge(allRecords, notionKey, dest) ==
  UnitaryLoop(allRecords, notionKey, dest,
              [finalVal |-> Null, newestTime |-> <<>>, mergedFrom |-> <<>>])

\* the body of the loop over FIELD_MAP for one entry: the property it puts
\* in mergedProps (none when props is empty) and whether key is pushed on
\* fieldsMerged
MergeField(mapping, group) ==
  LET destVal == group.dest[mapping.notionKey]
  IN IF mapping.apiType = "multi_select"
     THEN LET allTags == AllTags(group.allRecords, mapping.notionKey, <<>>)
              destTags == NewSet(IF destVal.t = "array" THEN destVal.v ELSE <<>>)
          IN IF Len(allTags) > 0
             THEN [props |-> (mapping.prop :> toNotionProp("multi_select", Arr(allTags))),
                   merged |-> Len(allTags) > Len(destTags)]
             ELSE [props |-> <<>>, merged |-> FALSE]
     ELSE LET m == UnitaryMerge(group.allRecords, mapping.notionKey, group.dest)
          IN IF hasValue(m.finalVal)
             THEN [props |-> (mapping.prop :> toNotionProp(mapping.apiType, m.finalVal)),
                   merged |-> m.mergedFrom # <<>>]
             ELSE [props |-> <<>>, merged |-> FALSE]

\* mutant: a property is put in mergedProps only when it changed
RECURSIVE MergeFields_OnlyChanged(_, _, _)
MergeFields_OnlyChanged(fieldMap, group, acc) ==
  IF fieldMap = <<>> THEN acc
  ELSE LET r == MergeField(Head(fieldMap), group)
       IN MergeFields_OnlyChanged(Tail(fieldMap), group,
                      [mergedProps |-> IF r.merged THEN r.props @@ acc.mergedProps
                                       ELSE acc.mergedProps,
                       fieldsMerged |-> IF r.merged
                                        THEN Append(acc.fieldsMerged, Head(fieldMap).key)
                                        ELSE acc.fieldsMerged])

RECURSIVE MergeFields(_, _, _)
MergeFields(fieldMap, group, acc) ==
  IF fieldMap = <<>> THEN acc
  ELSE LET r == MergeField(Head(fieldMap), group)
       IN MergeFields(Tail(fieldMap), group,
                      [mergedProps |-> r.props @@ acc.mergedProps,
                       fieldsMerged |-> IF r.merged
                                        THEN Append(acc.fieldsMerged, Head(fieldMap).key)
                                        ELSE acc.fieldsMerged])

Subscribed == Str(<<"S", "u", "b", "s", "c", "r", "i", "b", "e", "d">>)

\* mutant: the default is written over the merged value
DefaultEmailMarketing_Always(mergedProps) ==
  ("Email Marketing" :> toNotionProp("select", Subscribed)) @@ mergedProps

\* if (!mergedProps['Email Marketing']) mergedProps['Email Marketing'] = Subscribed
DefaultEmailMarketing(mergedProps) ==
  IF "Email Marketing" \in DOMAIN mergedProps THEN mergedProps
  ELSE ("Email Marketing" :> toNotionProp("select", Subscribed)) @@ mergedProps

\* mutant: the title is the raw Email of the destination
SetIdentifier_RawEmail(mergedProps, group) ==
  ("Identifier" :> toNotionProp("title", group.dest.property_email)) @@ mergedProps

\* mergedProps['Identifier'] = toNotionProp('title', group.email)
SetIdentifier(mergedProps, group) ==
  ("Identifier" :> toNotionProp("title", Str(group.email))) @@ mergedProps

\* Relation unions
RECURSIVE RelationUnion(_, _, _)
RelationUnion(allRecords, key, union) ==
  IF allRecords = <<>> THEN union
  ELSE RelationUnion(Tail(allRecords), key, SetAddAll(union, Head(allRecords)[key]))

MergeRelation(rel, group) ==
  LET union == RelationUnion(group.allRecords, rel.key, <<>>)
      destIds == NewSet(group.dest[rel.key])
  IN IF Len(union) > 0
     THEN [props |-> (rel.prop :> [t |-> "relation", v |-> union]),
           changed |-> Len(union) > Len(destIds)]
     ELSE [props |-> <<>>, changed |-> FALSE]

RECURSIVE MergeRelations(_, _, _)
MergeRelations(relationFields, group, acc) ==
  IF relationFields = <<>> THEN acc
  ELSE LET r == MergeRelation(Head(relationFields), group)
       IN MergeRelations(Tail(relationFields), group,
                         [mergedProps |-> r.props @@ acc.mergedProps,
                          relationsChanged |-> IF r.changed
                                               THEN Append(acc.relationsChanged, Head(relationFields).prop)
                                               ELSE acc.relationsChanged])

\* mergedProps, fieldsMerged and relationsChanged of one group
MergeGroup(group) ==
  LET fields == MergeFields(FIELD_MAP, group, [mergedProps |-> <<>>, fieldsMerged |-> <<>>])
      withId == SetIdentifier(DefaultEmailMarketing(fields.mergedProps), group)
      rels == MergeRelations(RELATION_FIELDS, group,
                             [mergedProps |-> withId, relationsChanged |-> <<>>])
  IN [mergedProps |-> rels.mergedProps,
      fieldsMerged |-> fields.fieldsMerged,
      relationsChanged |-> rels.relationsChanged]

\* for (const [key, mapping] of Object.entries(FIELD_MAP))
\*   sourceRecord[key] = src[mapping.notionKey] ?? '';
RECURSIVE SourceFields(_, _, _)
SourceFields(fieldMap, src, sourceRecord) ==
  IF fieldMap = <<>> THEN sourceRecord
  ELSE SourceFields(Tail(fieldMap), src,
                    (Head(fieldMap).key :> Coalesce(src[Head(fieldMap).notionKey], Str(<<>>)))
                      @@ sourceRecord)

SourceRecord(src) ==
  SourceFields(FIELD_MAP, src,
               [id |-> src.id, email |-> Str(src.email), created_time |-> src.created_time])

\* 1. Update destination contact with merged fields + relation unions
UpdateItem(group, groupIdx) ==
  LET m == MergeGroup(group)
  IN [url |-> group.dest.id,
      body |-> [properties |-> m.mergedProps],
      meta |-> [action |-> "update_contact",
                groupIdx |-> groupIdx,
                email |-> group.email,
                pageId |-> group.dest.id,
                fieldsMerged |-> m.fieldsMerged,
                sourceCount |-> Len(group.sources),
                relationsChanged |-> m.relationsChanged]]

\* 2. Archive source records
ArchiveItem(group, groupIdx, src) ==
  [url |-> src.id,
   body |-> [archived |-> TRUE],
   meta |-> [action |-> "archive_source",
             groupIdx |-> groupIdx,
             email |-> group.email,
             pageId |-> src.id,
             sourceRecord |-> SourceRecord(src)]]

\* mutant: the update is pushed only when an attribute changed
GroupItems_UpdateIfChanged(group, groupIdx) ==
  (IF MergeGroup(group).fieldsMerged # <<>> \/ MergeGroup(group).relationsChanged # <<>>
   THEN <<UpdateItem(group, groupIdx)>> ELSE <<>>)
    \o [i \in 1..Len(group.sources) |-> ArchiveItem(group, groupIdx, group.sources[i])]

\* mutant: the sources are archived only when an attribute changed
GroupItems_ArchiveIfChanged(group, groupIdx) ==
  <<UpdateItem(group, groupIdx)>>
    \o (IF MergeGroup(group).fieldsMerged # <<>> \/ MergeGroup(group).relationsChanged # <<>>
        THEN [i \in 1..Len(group.sources) |-> ArchiveItem(group, groupIdx, group.sources[i])]
        ELSE <<>>)

\* the items pushed on outputItems for one group
GroupItems(group, groupIdx) ==
  <<UpdateItem(group, groupIdx)>>
    \o [i \in 1..Len(group.sources) |-> ArchiveItem(group, groupIdx, group.sources[i])]

RECURSIVE OutputItems(_, _)
OutputItems(groups, groupIdx) ==
  IF groupIdx >= Len(groups) THEN <<>>
  ELSE GroupItems(groups[groupIdx + 1], groupIdx) \o OutputItems(groups, groupIdx + 1)

\* the items Build Merge Plan returns for the items it receives
buildMergePlan(allItems) ==
  LET plans == SelectSeq(allItems, LAMBDA item : item.type = "duplicate_plan")
  IN IF plans = <<>> \/ Len(Head(plans).groups) = 0 THEN <<>>
     ELSE OutputItems(Head(plans).groups, 0)

\* ------------------------------------------------------------------------
\* Limit to Test Set
\* ------------------------------------------------------------------------
MAX_GROUPS == 3

allActionTypes == <<"update_contact", "archive_source">>

\* groupActions: one entry per groupIdx, in the order the Map got its keys,
\* with the Set of the actions of the group
GroupActions(allItems) ==
  LET keys == NewSet([i \in 1..Len(allItems) |-> allItems[i].meta.groupIdx])
      actionsOf(gi) ==
        LET of == SelectSeq(allItems, LAMBDA item : item.meta.groupIdx = gi)
        IN NewSet([i \in 1..Len(of) |-> of[i].meta.action])
  IN [k \in 1..Len(keys) |-> [gi |-> keys[k], actions |-> actionsOf(keys[k])]]

\* mutant: the groups are taken in the order of the input
Ranked_InputOrder(entries) == entries

\* [...groupActions.entries()].sort((a, b) => b[1].size - a[1].size)
Ranked(entries) ==
  LET n == Len(entries)
      c == [i \in 1..n |-> [j \in 1..n |->
              Len(entries[j].actions) - Len(entries[i].actions)]]
      order == ArraySort(n, c)
  IN [k \in 1..n |-> entries[order[k]]]

\* mutant: the first MAX_GROUPS groups are taken, whatever they cover
RECURSIVE SelectGroups_UpToMax(_, _)
SelectGroups_UpToMax(ranked, acc) ==
  IF ranked = <<>> THEN acc
  ELSE IF Len(acc.selectedGroups) >= MAX_GROUPS THEN acc
  ELSE SelectGroups_UpToMax(Tail(ranked),
                            [selectedGroups |-> Append(acc.selectedGroups, Head(ranked).gi),
                             coveredActions |-> SetAddAll(acc.coveredActions,
                                                          Head(ranked).actions)])

\* Greedily select groups covering the most uncovered action types
RECURSIVE SelectGroups(_, _)
SelectGroups(ranked, acc) ==
  IF ranked = <<>> THEN acc
  ELSE IF Len(acc.coveredActions) >= Len(allActionTypes) THEN acc
  ELSE IF Len(acc.selectedGroups) >= MAX_GROUPS THEN acc
  ELSE LET actions == Head(ranked).actions
           newActions == SelectSeq(actions, LAMBDA a : a \notin Range(acc.coveredActions))
       IN SelectGroups(Tail(ranked),
                       IF Len(newActions) > 0
                       THEN [selectedGroups |-> Append(acc.selectedGroups, Head(ranked).gi),
                             coveredActions |-> SetAddAll(acc.coveredActions, actions)]
                       ELSE acc)

\* _testSummary: the numbers and the names the text is put together from
TestSummary(selected, totalGroups, calls, totalBefore, uncovered) ==
  [groups |-> <<selected, totalGroups>>,
   calls |-> <<calls, totalBefore>>,
   notCovered |-> uncovered]

\* mutant: the marks are put in the body of the request
TagItem_InBody(item, summary) ==
  [item EXCEPT !.body = [testMode |-> TRUE, testSummary |-> summary] @@ @]

\* item.json._meta._testMode = true; item.json._meta._testSummary = ...
TagItem(item, summary) ==
  [item EXCEPT !.meta = [testMode |-> TRUE, testSummary |-> summary] @@ @]

\* the items Limit to Test Set returns: the items of the selected groups,
\* each with _testMode and _testSummary put in its _meta
limitToTestSet(allItems) ==
  IF Len(allItems) = 0 THEN <<>>
  ELSE LET groupActions == GroupActions(allItems)
           sel == SelectGroups(Ranked(groupActions),
                               [selectedGroups |-> <<>>, coveredActions |-> <<>>])
           outputItems ==
             SelectSeq(allItems,
                       LAMBDA item : item.meta.groupIdx \in Range(sel.selectedGroups))
           uncovered ==
             SelectSeq(allActionTypes, LAMBDA a : a \notin Range(sel.coveredActions))
           summary == TestSummary(Len(sel.selectedGroups), Len(groupActions),
                                  Len(outputItems), Len(allItems), uncovered)
       IN [i \in 1..Len(outputItems) |-> TagItem(outputItems[i], summary)]

\* ------------------------------------------------------------------------
\* Build Backup CSV
\* ------------------------------------------------------------------------

\* tags.join(', '): the text as the sequence of its pieces
RECURSIVE Join(_)
Join(a) ==
  IF a = <<>> THEN <<>>
  ELSE IF Len(a) = 1 THEN a
  ELSE <<Head(a), ", ">> \o Join(Tail(a))

\* the row of one archive item; the columns of the FIELD_MAP entries the
\* model keeps, as the node lists them
BackupRow(src) ==
  [id |-> src.id,
   email |-> src.email,
   first_name |-> OrElse(src.first_name, Str(<<>>)),
   email_marketing |-> OrElse(src.email_marketing, Str(<<>>)),
   tags |-> IF src.tags.t = "array" THEN Str(Join(src.tags.v))
            ELSE OrElse(src.tags, Str(<<>>)),
   created_time |-> OrElse(src.created_time, Str(<<>>))]

\* mutant: only the first archive item gets a row
buildBackup_FirstOnly(inputItems) ==
  LET archiveItems == SelectSeq(inputItems, LAMBDA i : i.meta.action = "archive_source")
  IN IF archiveItems = <<>> THEN <<>>
     ELSE <<BackupRow(archiveItems[1].meta.sourceRecord)>>

\* the items Build Backup CSV returns
buildBackup(inputItems) ==
  LET archiveItems == SelectSeq(inputItems, LAMBDA i : i.meta.action = "archive_source")
  IN [k \in 1..Len(archiveItems) |-> BackupRow(archiveItems[k].meta.sourceRecord)]

\* ------------------------------------------------------------------------
\* Execute on Notion, Combine Results
\* ------------------------------------------------------------------------

\* mutant: a request that fails stops the node
continueOnFail_Off == FALSE

\* executeOnNotion.continueOnFail = true
continueOnFail == TRUE

\* what the node returns for one request: the page on success, an item
\* with an error when the request failed; neither carries a statusCode
ResponseOk == [error |-> Undefined, statusCode |-> Undefined]
ResponseError == [error |-> Str(<<"E">>), statusCode |-> Undefined]

Min(a, b) == IF a <= b THEN a ELSE b

\* mutant: the items of input 0 are taken from the last to the first
combineByPosition_Reversed(input0, input1) ==
  [i \in 1..Min(Len(input0), Len(input1)) |-> input0[Len(input0) + 1 - i] @@ input1[i]]

\* Merge, combineByPosition: the items of the two inputs at one position
\* become one item with the fields of both
combineByPosition(input0, input1) ==
  [i \in 1..Min(Len(input0), Len(input1)) |-> input0[i] @@ input1[i]]

\* ------------------------------------------------------------------------
\* Build Report
\* ------------------------------------------------------------------------

\* item.json.error || item.json.statusCode >= 400
hasError(item) ==
  Truthy(item.error) \/ (item.statusCode.t = "number" /\ item.statusCode.v >= 400)

\* item.json.error || item.json.message || 'HTTP ' + item.json.statusCode
ErrorText(item) ==
  OrElse(item.error, Str(<<"HTTP ", item.statusCode.v>>))

\* the entry groupMap.set puts under a new key; destId is <<>> for null
NewGroupEntry(meta) ==
  [key |-> meta.groupIdx,
   email |-> meta.email,
   destId |-> <<>>,
   fieldsMerged |-> <<>>,
   relationsChanged |-> <<>>,
   sourcesArchived |-> <<>>,
   errors |-> <<>>]

\* mutant: the error of a failed request is not recorded
ReportItem_NoErrors(g, item) ==
  LET meta == item.meta
  IN IF meta.action = "update_contact"
     THEN [g EXCEPT !.destId = <<meta.pageId>>,
                    !.fieldsMerged = meta.fieldsMerged,
                    !.relationsChanged = meta.relationsChanged]
     ELSE IF meta.action = "archive_source"
     THEN [g EXCEPT !.sourcesArchived = Append(@, [pageId |-> meta.pageId])]
     ELSE g

\* the body of the loop over the items, on the entry g of the item's group
ReportItem(g, item) ==
  LET meta == item.meta
      error == IF hasError(item)
               THEN <<[action |-> meta.action, pageId |-> meta.pageId,
                       error |-> ErrorText(item)]>>
               ELSE <<>>
  IN IF meta.action = "update_contact"
     THEN [g EXCEPT !.destId = <<meta.pageId>>,
                    !.fieldsMerged = meta.fieldsMerged,
                    !.relationsChanged = meta.relationsChanged,
                    !.errors = @ \o error]
     ELSE IF meta.action = "archive_source"
     THEN [g EXCEPT !.sourcesArchived = Append(@, [pageId |-> meta.pageId]),
                    !.errors = @ \o error]
     ELSE g

\* groupMap after the loop over the items, in the order of its keys
RECURSIVE GroupMap(_, _)
GroupMap(inputItems, groupMap) ==
  IF inputItems = <<>> THEN groupMap
  ELSE LET item == Head(inputItems)
       IN IF "meta" \notin DOMAIN item THEN GroupMap(Tail(inputItems), groupMap)
          ELSE LET key == item.meta.groupIdx
                   withKey == IF \E k \in 1..Len(groupMap) : groupMap[k].key = key
                              THEN groupMap
                              ELSE Append(groupMap, NewGroupEntry(item.meta))
                   at == CHOOSE k \in 1..Len(withKey) : withKey[k].key = key
               IN GroupMap(Tail(inputItems),
                           [withKey EXCEPT ![at] = ReportItem(withKey[at], item)])

RECURSIVE SumOf(_, _)
SumOf(groupMap, field) ==
  IF groupMap = <<>> THEN 0
  ELSE Len(Head(groupMap)[field]) + SumOf(Tail(groupMap), field)

NoDuplicatesMessage == "No duplicates found - nothing to merge."

\* mutant: the status does not look at the errors of the group
GroupStatus_AlwaysSuccess(g) == "success"

\* status: g.errors.length === 0 ? 'success' : 'partial_failure'
GroupStatus(g) ==
  IF Len(g.errors) = 0 THEN "success" ELSE "partial_failure"

\* the items Build Report returns
buildReport(inputItems) ==
  IF Len(inputItems) = 0
  THEN << [type |-> "summary", message |-> NoDuplicatesMessage] >>
  ELSE LET groupMap == GroupMap(inputItems, <<>>)
           totalArchived == SumOf(groupMap, "sourcesArchived")
           totalErrors == SumOf(groupMap, "errors")
       IN << [type |-> "summary",
              duplicateGroups |-> Len(groupMap),
              recordsArchived |-> totalArchived,
              errors |-> totalErrors,
              message |-> IF totalErrors = 0
                          THEN <<"All merges completed successfully.">>
                          ELSE <<totalErrors, " error(s) encountered - check group details.">>] >>
          \o [k \in 1..Len(groupMap) |->
                [type |-> "merge",
                 email |-> groupMap[k].email,
                 destId |-> groupMap[k].destId,
                 fieldsMerged |-> groupMap[k].fieldsMerged,
                 relationsChanged |-> groupMap[k].relationsChanged,
                 sourcesArchived |-> groupMap[k].sourcesArchived,
                 status |-> GroupStatus(groupMap[k]),
                 errors |-> groupMap[k].errors]]

\* ------------------------------------------------------------------------
\* The contacts database: the snapshots the model starts from
\* ------------------------------------------------------------------------
IsoTime(n) == Str(<<n>>)
Times == {IsoTime(n) : n \in 1..MaxTime}
TimesOrMissing == Times \cup {Undefined}

\* an element of a relation property as the Notion node returns it
RelString(id) == [t |-> "string", v |-> id]
RelObject(id) == [t |-> "object", v |-> id]

Profiles(times, emails, identifiers, firstNames, marketings, tags, papers) ==
  [property_created_time : times,
   property_email : emails,
   property_identifier : identifiers,
   property_first_name : firstNames,
   property_email_marketing : marketings,
   property_tags : tags,
   property_address_line_2 : {Undefined},
   property_papers : papers]

\* identity keys: missing, empty, blank, and keys that differ in case and
\* surrounding whitespace
KeyProfiles ==
  Profiles({IsoTime(1)},
           {Undefined, Str(<<>>), Str(<<" ">>), Str(<<"a">>), Str(<<" ", "A">>), Str(<<"b">>)},
           {Undefined, Str(<<"A", " ">>)},
           {Undefined}, {Undefined}, {Undefined}, {Undefined})

\* raw keys of one group at different ages
IdentityProfiles ==
  Profiles(Times,
           {Str(<<>>), Str(<<"a">>), Str(<<"A">>)},
           {Str(<<"a">>)},
           {Undefined}, {Undefined}, {Undefined}, {Undefined})

\* several groups, with equal and different creation times
PartitionProfiles ==
  Profiles({IsoTime(1), IsoTime(MaxTime)},
           {Str(<<"a">>), Str(<<"b">>)},
           {Undefined},
           {Undefined}, {Undefined}, {Undefined}, {Undefined})

\* one group, a scalar attribute that is missing or set, with equal,
\* different and missing creation times
ScalarProfiles ==
  Profiles(TimesOrMissing,
           {Str(<<"a">>)},
           {Undefined},
           {Undefined, Str(<<"x">>), Str(<<"y">>)},
           {Undefined}, {Undefined}, {Undefined})

\* one group, the select with a default: missing, blank or set
MarketingProfiles ==
  Profiles(Times,
           {Str(<<"a">>)},
           {Undefined},
           {Undefined},
           {Undefined, Str(<<" ">>), Str(<<"U">>)},
           {Undefined}, {Undefined})

\* one group, the set-valued attribute
TagProfiles ==
  Profiles({IsoTime(1)},
           {Str(<<"a">>)},
           {Undefined},
           {Undefined}, {Undefined},
           {Undefined, Arr(<<>>), Arr(<<"t1">>), Arr(<<"t2", "t1">>)},
           {Undefined})

\* one group, the relation
PaperProfiles ==
  Profiles({IsoTime(1)},
           {Str(<<"a">>)},
           {Undefined},
           {Undefined}, {Undefined}, {Undefined},
           {Undefined, Arr(<<RelString("p1")>>), Arr(<<RelObject("p2"), RelObject("")>>),
            Arr(<<RelObject("p1"), RelString("p2")>>)})

\* the executed pipeline: one or two groups of records that differ in
\* nothing but the key
ExecProfiles ==
  Profiles({IsoTime(1)},
           {Str(<<"a">>), Str(<<"b">>)},
           {Undefined},
           {Undefined}, {Undefined}, {Undefined}, {Undefined})

\* the backup: one group, records with and without a first name and a
\* second address line, with two tags
BackupProfiles ==
  [property_created_time : {IsoTime(1)},
   property_email : {Str(<<"a">>)},
   property_identifier : {Undefined},
   property_first_name : {Undefined, Str(<<"x">>)},
   property_email_marketing : {Undefined},
   property_tags : {Arr(<<"t2", "t1">>)},
   property_address_line_2 : {Undefined, Str(<<"z">>)},
   property_papers : {Undefined}]

\* the page of the store at position i: ids are unique
Page(i, profile) == [id |-> i] @@ profile

\* the store holds at most maxLen pages, each with a profile of the family
StoreOf(profiles, maxLen) ==
  \E n \in 0..maxLen :
    \E f \in [1..n -> profiles] :
      store = [i \in 1..n |-> Page(i, f[i])]

\* ------------------------------------------------------------------------
\* The workflow
\* ------------------------------------------------------------------------
\* getAllContacts and executeOnNotion: retryOnFail = true, maxTries = 3
retryOnFail == TRUE
maxTries == 3

\* the tries of Get All Contacts that failed, the runs of Execute on Notion
\* whose items were dropped, and the positions of the requests the store
\* accepted in those runs: none at the start
NoAttempts == [read |-> 0, execute |-> 0, accepted |-> {}]

\* mutant: the failed read is passed on as if nothing had happened
AfterReadFailure_Continue(failed) ==
  IF failed >= maxTries THEN "fetched" ELSE "start"

\* where the execution stands after a try of Get All Contacts has failed
AfterReadFailure(failed) ==
  IF failed >= maxTries THEN "readFailed" ELSE "start"

Init ==
  /\ \/ StoreOf(KeyProfiles, MaxRecords)
     \/ StoreOf(IdentityProfiles, MaxRecords)
     \/ StoreOf(PartitionProfiles, MaxRecords + 1)
     \/ StoreOf(ScalarProfiles, MaxRecords)
     \/ StoreOf(MarketingProfiles, MaxRecords)
     \/ StoreOf(TagProfiles, MaxRecords)
     \/ StoreOf(PaperProfiles, MaxRecords)
  /\ pc = "start"
  /\ items = <<>>
  /\ plan = <<>>
  /\ mutations = <<>>
  /\ limited = <<>>
  /\ backup = <<>>
  /\ responses = <<>>
  /\ combined = <<>>
  /\ report = <<>>
  /\ attempts = NoAttempts

\* the workflow runs a node when an item reaches it: a node that returns
\* no item ends its branch
Runs(input) == input # <<>>

\* Get All Contacts: returnAll, no filter
GetAllContacts ==
  /\ pc = "start"
  /\ items' = store
  /\ pc' = "fetched"
  /\ UNCHANGED <<store, plan, mutations, later>>

\* Get All Contacts fails: the node has no continueOnFail, so the try
\* throws; after maxTries tries the execution ends with the error
GetAllContactsFails ==
  /\ pc = "start"
  /\ retryOnFail
  /\ attempts.read < maxTries
  /\ attempts' = [attempts EXCEPT !.read = @ + 1]
  /\ pc' = AfterReadFailure(attempts'.read)
  /\ UNCHANGED <<store, items, plan, mutations, limited, backup, responses, combined, report>>

\* Find Duplicates runs once for all items
FindDuplicates ==
  /\ pc = "fetched"
  /\ Runs(items)
  /\ plan' = findDuplicates(items)
  /\ pc' = "found"
  /\ UNCHANGED <<store, items, mutations, later>>

\* Build Merge Plan runs when Find Duplicates returned an item
BuildMergePlan ==
  /\ pc = "found"
  /\ Runs(plan)
  /\ mutations' = buildMergePlan(plan)
  /\ pc' = "planned"
  /\ UNCHANGED <<store, items, plan, later>>

Next == GetAllContacts \/ FindDuplicates \/ BuildMergePlan

Spec == Init /\ [][Next]_vars

\* Limit to Test Set, enabled: the test run
LimitToTestSet ==
  /\ pc = "planned"
  /\ Runs(mutations)
  /\ limited' = limitToTestSet(mutations)
  /\ pc' = "limited"
  /\ UNCHANGED <<store, items, plan, mutations, backup, responses, combined, report, attempts>>

\* Limit to Test Set, disabled in the UI: all items pass through unchanged
LimitToTestSetDisabled ==
  /\ pc = "planned"
  /\ Runs(mutations)
  /\ limited' = mutations
  /\ pc' = "limited"
  /\ UNCHANGED <<store, items, plan, mutations, backup, responses, combined, report, attempts>>

\* Build Backup CSV: the upper branch runs first
BuildBackup ==
  /\ pc = "limited"
  /\ Runs(limited)
  /\ backup' = buildBackup(limited)
  /\ pc' = "backedUp"
  /\ UNCHANGED <<store, items, plan, mutations, limited, responses, combined, report, attempts>>

\* Execute on Notion: one request at a time (batchSize 1), in the order of
\* the items; the store accepts the request or rejects it
ExecuteOnNotion ==
  /\ pc = "backedUp"
  /\ Len(responses) < Len(limited)
  /\ \E response \in {ResponseOk, ResponseError} :
       IF Truthy(response.error) /\ ~continueOnFail
       THEN /\ pc' = "aborted"
            /\ UNCHANGED responses
       ELSE /\ responses' = Append(responses, response)
            /\ pc' = IF Len(responses') = Len(limited) THEN "executed" ELSE pc
  /\ UNCHANGED <<store, items, plan, mutations, limited, backup, combined, report, attempts>>

\* Execute on Notion, retryOnFail with continueOnFail: no request throws,
\* and whether the node is tried again is decided by the workflow engine,
\* from the first item the node returned. The engine is not part of the
\* repository: after a run whose first item is an error item the node may
\* be run again, for all its items, while tries are left. The items of the
\* run before are dropped; attempts keeps which of its requests the store
\* had accepted.
ExecuteAgain ==
  /\ pc = "executed"
  /\ retryOnFail
  /\ attempts.execute + 1 < maxTries
  /\ Runs(responses)
  /\ responses[1].error # Undefined
  /\ attempts' = [attempts EXCEPT
                    !.execute = @ + 1,
                    !.accepted = @ \cup {i \in 1..Len(responses) :
                                           responses[i].error = Undefined}]
  /\ responses' = <<>>
  /\ pc' = "backedUp"
  /\ UNCHANGED <<store, items, plan, mutations, limited, backup, combined, report>>

\* Combine Results: the responses (input 0) with the plan items (input 1)
CombineResults ==
  /\ pc = "executed"
  /\ Runs(responses)
  /\ Runs(limited)
  /\ combined' = combineByPosition(responses, limited)
  /\ pc' = "combined"
  /\ UNCHANGED <<store, items, plan, mutations, limited, backup, responses, report, attempts>>

\* Build Report runs once for all items
BuildReport ==
  /\ pc = "combined"
  /\ Runs(combined)
  /\ report' = buildReport(combined)
  /\ pc' = "reported"
  /\ UNCHANGED <<store, items, plan, mutations, limited, backup, responses, combined, attempts>>

\* the whole workflow, on the snapshots of the executed pipeline
InitPipeline ==
  /\ \/ StoreOf(ExecProfiles, MaxRecords + 1)
     \/ StoreOf(BackupProfiles, MaxRecords - 1)
  /\ pc = "start"
  /\ items = <<>>
  /\ plan = <<>>
  /\ mutations = <<>>
  /\ limited = <<>>
  /\ backup = <<>>
  /\ responses = <<>>
  /\ combined = <<>>
  /\ report = <<>>
  /\ attempts = NoAttempts

NextPipeline ==
  \/ GetAllContacts
  \/ GetAllContactsFails
  \/ FindDuplicates
  \/ BuildMergePlan
  \/ LimitToTestSet
  \/ LimitToTestSetDisabled
  \/ BuildBackup
  \/ ExecuteOnNotion
  \/ ExecuteAgain
  \/ CombineResults
  \/ BuildReport

Pipeline == InitPipeline /\ [][NextPipeline]_vars

\* the merge on its own: groups with scalar values of every age, and
\* groups whose collections repeat an entry
TagDupProfiles ==
  Profiles({IsoTime(1)},
           {Str(<<"a">>)},
           {Undefined},
           {Undefined}, {Undefined},
           {Undefined, Arr(<<"t1", "t1">>), Arr(<<"t2">>), Arr(<<"t1", "t2", "t1">>)},
           {Undefined})

PaperDupProfiles ==
  Profiles({IsoTime(1)},
           {Str(<<"a">>)},
           {Undefined},
           {Undefined}, {Undefined}, {Undefined},
           {Undefined, Arr(<<RelObject("p1"), RelString("p1")>>), Arr(<<RelString("p2")>>),
            Arr(<<RelString("p1"), RelObject("p2"), RelObject("p1")>>)})

InitMerging ==
  /\ \/ StoreOf(ScalarProfiles, MaxRecords)
     \/ StoreOf(TagDupProfiles, MaxRecords)
     \/ StoreOf(PaperDupProfiles, MaxRecords)
  /\ pc = "start"
  /\ items = <<>>
  /\ plan = <<>>
  /\ mutations = <<>>
  /\ limited = <<>>
  /\ backup = <<>>
  /\ responses = <<>>
  /\ combined = <<>>
  /\ report = <<>>
  /\ attempts = NoAttempts

Merging == InitMerging /\ [][Next]_vars

\* Limit to Test Set as a function of any list of mutation items: the node
\* reads _meta.groupIdx and _meta.action of an item and nothing else. The
\* lists hold up to MaxRecords + 1 items of up to MaxRecords groups, of
\* either kind, in any order.
Intent(i, kindAndGroup) ==
  [url |-> i,
   meta |-> [action |-> kindAndGroup[1], groupIdx |-> kindAndGroup[2], pageId |-> i]]

InitSampler ==
  /\ \E n \in 1..(MaxRecords + 1) :
       \E f \in [1..n -> Range(allActionTypes) \X (0..(MaxRecords - 1))] :
         mutations = [i \in 1..n |-> Intent(i, f[i])]
  /\ pc = "planned"
  /\ store = <<>>
  /\ items = <<>>
  /\ plan = <<>>
  /\ limited = <<>>
  /\ backup = <<>>
  /\ responses = <<>>
  /\ combined = <<>>
  /\ report = <<>>
  /\ attempts = NoAttempts

NextSampler == LimitToTestSet

Sampler == InitSampler /\ [][NextSampler]_vars

\* ------------------------------------------------------------------------
\* Vocabulary of the properties
\* ------------------------------------------------------------------------
Found == pc \in {"found", "planned"}
Planned == pc = "planned"

\* duplicateGroups as Find Duplicates returned them
Groups == IF plan = <<>> THEN <<>> ELSE plan[1].groups

TimeOf(r) == DateGetTime(r.created_time)
Parseable(r) == TimeOf(r) # NaN

\* the position of a page in the input sequence
PositionOf(id) == CHOOSE i \in 1..Len(items) : items[i].id = id

IdsOf(records) == {records[i].id : i \in 1..Len(records)}

\* the mutation items of the group with index groupIdx, by action
UpdatesOf(groupIdx) ==
  SelectSeq(mutations,
            LAMBDA m : m.meta.action = "update_contact" /\ m.meta.groupIdx = groupIdx)
ArchivesOf(groupIdx) ==
  SelectSeq(mutations,
            LAMBDA m : m.meta.action = "archive_source" /\ m.meta.groupIdx = groupIdx)

NothingChanged(m) == m.meta.fieldsMerged = <<>> /\ m.meta.relationsChanged = <<>>

\* ------------------------------------------------------------------------
\* C1: in every duplicate group the destination is the record with the
\* earliest createdAt, the first of the input among several with that
\* createdAt, and the sources follow in ascending createdAt order.  Only
\* records whose createdAt parses are compared.
\* ------------------------------------------------------------------------
C1_DestinationIsEarliest ==
  Found =>
    \A k \in 1..Len(Groups) :
      LET g == Groups[k]
      IN /\ \A r \in Range(g.allRecords) :
              (Parseable(g.dest) /\ Parseable(r)) =>
                \/ TimeOf(g.dest)[1] < TimeOf(r)[1]
                \/ /\ TimeOf(g.dest)[1] = TimeOf(r)[1]
                   /\ PositionOf(g.dest.id) <= PositionOf(r.id)
         /\ \A i, j \in 1..Len(g.sources) :
              (i < j /\ Parseable(g.sources[i]) /\ Parseable(g.sources[j])) =>
                TimeOf(g.sources[i])[1] <= TimeOf(g.sources[j])[1]

\* C1 on the groups whose records all have a createdAt that parses: there
\* the destination is the earliest record, the first of the input on a tie,
\* and the sources ascend, equal ones in input order.
C1_EarliestWhenAllParse ==
  Found =>
    \A k \in 1..Len(Groups) :
      LET g == Groups[k]
      IN (\A r \in Range(g.allRecords) : Parseable(r)) =>
           \A i, j \in 1..Len(g.allRecords) :
             i < j =>
               \/ TimeOf(g.allRecords[i])[1] < TimeOf(g.allRecords[j])[1]
               \/ /\ TimeOf(g.allRecords[i])[1] = TimeOf(g.allRecords[j])[1]
                  /\ PositionOf(g.allRecords[i].id) < PositionOf(g.allRecords[j].id)

C3_OneArchivePerSource ==
  Planned =>
    \A k \in 1..Len(Groups) :
      LET g == Groups[k]
          arch == ArchivesOf(k - 1)
          targets == {arch[i].meta.pageId : i \in 1..Len(arch)}
      IN /\ Len(arch) = Len(g.allRecords) - 1
         /\ Cardinality(targets) = Len(arch)
         /\ targets = IdsOf(g.sources)
         /\ g.dest.id \notin targets
         /\ \A i \in 1..Len(arch) : arch[i].url = arch[i].meta.pageId

\* a group of three records, nothing of which changed the destination, with
\* its two archive items
C3_Witness ==
  /\ Planned
  /\ \E k \in 1..Len(Groups) :
       /\ Len(Groups[k].allRecords) = 3
       /\ Len(ArchivesOf(k - 1)) = 2
       /\ \E i \in 1..Len(mutations) :
            /\ mutations[i].meta.action = "update_contact"
            /\ mutations[i].meta.groupIdx = k - 1
            /\ NothingChanged(mutations[i])

\* the page of the input a record of a group was parsed from
PageOf(r) == items[PositionOf(r.id)]

\* the properties of the update_contact item of the group at index k
PropsOf(k) == UpdatesOf(k - 1)[1].body.properties

\* the entries of FIELD_MAP merged as unitary (scalar) values
ScalarFields == {f \in Range(FIELD_MAP) : f.apiType # "multi_select"}

\* ------------------------------------------------------------------------
\* C4: the merged value of a scalar attribute is the value of the record
\* with the latest createdAt among the records of the group that hold a
\* non-empty value for it (so the value of the only holder, when there is
\* one).
\* ------------------------------------------------------------------------
C4_NewestValueWins ==
  Planned =>
    \A k \in 1..Len(Groups) :
      \A f \in ScalarFields :
        LET holders == {r \in Range(Groups[k].allRecords) : hasValue(r[f.notionKey])}
        IN holders # {} =>
             /\ f.prop \in DOMAIN PropsOf(k)
             /\ \E r \in holders :
                  /\ PropsOf(k)[f.prop].v = r[f.notionKey].v
                  /\ \A r2 \in holders :
                       Parseable(r2) => (Parseable(r) /\ TimeOf(r)[1] >= TimeOf(r2)[1])

\* C4 on the groups whose records all have a createdAt that parses
C4_NewestValueWinsWhenAllParse ==
  Planned =>
    \A k \in 1..Len(Groups) :
      (\A r \in Range(Groups[k].allRecords) : Parseable(r)) =>
        \A f \in ScalarFields :
          LET holders == {r \in Range(Groups[k].allRecords) : hasValue(r[f.notionKey])}
          IN holders # {} =>
               /\ f.prop \in DOMAIN PropsOf(k)
               /\ \E r \in holders :
                    /\ PropsOf(k)[f.prop].v = r[f.notionKey].v
                    /\ \A r2 \in holders : TimeOf(r)[1] >= TimeOf(r2)[1]

\* ------------------------------------------------------------------------
\* C5: the merged Tags and the merged relation are exactly the union,
\* without repetition, of the values of all records of the group, so a
\* superset of what the destination held; an empty union is not written.
\* The values are read from the pages of the input.
\* ------------------------------------------------------------------------
TagsOfPage(j) ==
  IF j.property_tags.t = "array" THEN Range(j.property_tags.v) ELSE {}

PapersOfPage(j) ==
  IF j.property_papers.t = "array"
  THEN {e.v : e \in Range(j.property_papers.v)} \ {""}
  ELSE {}

IsUnionOf(props, prop, union, destSet) ==
  /\ (union = {}) <=> (prop \notin DOMAIN props)
  /\ union # {} =>
       /\ Range(props[prop].v) = union
       /\ Len(props[prop].v) = Cardinality(union)
       /\ destSet \subseteq Range(props[prop].v)

C5_UnionOfGroup ==
  Planned =>
    \A k \in 1..Len(Groups) :
      LET pages == {PageOf(r) : r \in Range(Groups[k].allRecords)}
          dest == PageOf(Groups[k].dest)
      IN /\ IsUnionOf(PropsOf(k), "Tags",
                      UNION {TagsOfPage(j) : j \in pages}, TagsOfPage(dest))
         /\ IsUnionOf(PropsOf(k), "Papers",
                      UNION {PapersOfPage(j) : j \in pages}, PapersOfPage(dest))

\* a destination with a non-empty set and a source that adds to it, for the
\* Tags or for the relation
C5_Witness ==
  /\ Planned
  /\ \E k \in 1..Len(Groups) :
       LET dest == PageOf(Groups[k].dest)
       IN \/ /\ TagsOfPage(dest) # {}
             /\ "Tags" \in DOMAIN PropsOf(k)
             /\ Range(PropsOf(k)["Tags"].v) # TagsOfPage(dest)
          \/ /\ PapersOfPage(dest) # {}
             /\ "Papers" \in DOMAIN PropsOf(k)
             /\ Range(PropsOf(k)["Papers"].v) # PapersOfPage(dest)

\* ------------------------------------------------------------------------
\* C6 as claimed: a scalar attribute written by the merge has the value
\* some record of the group held for it.
\* ------------------------------------------------------------------------
HeldBy(k, f, value) ==
  \E r \in Range(Groups[k].allRecords) :
    r[f.notionKey].t = "string" /\ r[f.notionKey].v = value

C6_ScalarFromSomeRecord ==
  Planned =>
    \A k \in 1..Len(Groups) :
      \A f \in ScalarFields :
        f.prop \in DOMAIN PropsOf(k) => HeldBy(k, f, PropsOf(k)[f.prop].v)

\* C6 as amended: a scalar attribute written by the merge has the value
\* some record of the group held for it, except that Email Marketing is
\* written as "Subscribed" when no record of the group holds a value for
\* it, and that the Identifier is written as the normalized key of the
\* group.
C6_ScalarFromSomeRecordOrDefault ==
  Planned =>
    \A k \in 1..Len(Groups) :
      /\ \A f \in ScalarFields :
           f.prop \in DOMAIN PropsOf(k) =>
             \/ HeldBy(k, f, PropsOf(k)[f.prop].v)
             \/ /\ f.key = "email_marketing"
                /\ PropsOf(k)[f.prop].v = Subscribed.v
                /\ \A r \in Range(Groups[k].allRecords) : ~hasValue(r[f.notionKey])
      /\ "Email Marketing" \in DOMAIN PropsOf(k)
      /\ PropsOf(k)["Identifier"] = [t |-> "title", v |-> Groups[k].email]

\* a group without any Email Marketing gets the default, next to a First
\* name taken from a record
C6_Witness ==
  /\ Planned
  /\ \E k \in 1..Len(Groups) :
       /\ \A r \in Range(Groups[k].allRecords) : ~hasValue(r.property_email_marketing)
       /\ PropsOf(k)["Email Marketing"].v = Subscribed.v
       /\ "First name" \in DOMAIN PropsOf(k)

\* the identity key of a page of the input: the Email, else the Identifier,
\* trimmed and in lower case; <<>> when the page has no usable key
KeyOfPage(j) ==
  LET raw == IF Truthy(j.property_email) THEN j.property_email.v
             ELSE IF Truthy(j.property_identifier) THEN j.property_identifier.v
             ELSE <<>>
  IN ToLowerCase(Trim(raw))

\* the positions of the input pages with the key
PagesWithKey(key) == {i \in 1..Len(items) : KeyOfPage(items[i]) = key}

C8_PartitionByNormalizedKey ==
  Found =>
    LET usable == {i \in 1..Len(items) : KeyOfPage(items[i]) # <<>>}
        together(i, j) ==
          \E k \in 1..Len(Groups) :
            {items[i].id, items[j].id} \subseteq IdsOf(Groups[k].allRecords)
    IN /\ \A i, j \in usable :
            i # j => (together(i, j) <=> KeyOfPage(items[i]) = KeyOfPage(items[j]))
       /\ \A i \in usable :
            (\E k \in 1..Len(Groups) : Groups[k].email = KeyOfPage(items[i]))
              <=> Cardinality(PagesWithKey(KeyOfPage(items[i]))) >= 2
       /\ \A k \in 1..Len(Groups) :
            /\ Groups[k].email # <<>>
            /\ IdsOf(Groups[k].allRecords)
                 = {items[i].id : i \in PagesWithKey(Groups[k].email)}
       /\ \A k, l \in 1..Len(Groups) : k # l => Groups[k].email # Groups[l].email

\* keys that differ in case and surrounding whitespace are one group, next
\* to a key held by a single record, which has no group
C8_Witness ==
  /\ Found
  /\ \E i, j, l \in 1..Len(items) :
       /\ items[i].property_email = Str(<<" ", "A">>)
       /\ items[j].property_email = Str(<<"a">>)
       /\ items[l].property_email = Str(<<"b">>)
       /\ Len(Groups) = 1
       /\ IdsOf(Groups[1].allRecords) = {items[i].id, items[j].id}

\* ------------------------------------------------------------------------
\* C9: in every duplicate group the destination is one of the records of
\* the group, the sources are exactly the other records, and there is at
\* least one source.
\* ------------------------------------------------------------------------
C9_GroupShape ==
  Found =>
    \A k \in 1..Len(Groups) :
      LET g == Groups[k]
          records == {ParseContact(items[i]) : i \in PagesWithKey(g.email)}
      IN /\ g.dest \in records
         /\ Range(g.sources) = records \ {g.dest}
         /\ Len(g.sources) = Cardinality(records) - 1
         /\ Len(g.sources) >= 1
         /\ g.dest.id \notin IdsOf(g.sources)

\* a group of one destination and two sources
C9_Witness ==
  /\ Found
  /\ \E k \in 1..Len(Groups) :
       /\ Len(Groups[k].sources) = 2
       /\ Cardinality(PagesWithKey(Groups[k].email)) = 3

\* ------------------------------------------------------------------------
\* C10: every record is the target of at most one mutation item: no record
\* is in two groups, none is a source twice, and none is both updated as a
\* destination and archived as a source.
\* ------------------------------------------------------------------------
C10_OneIntentPerRecord ==
  /\ Found =>
       \A k, l \in 1..Len(Groups) :
         k # l => IdsOf(Groups[k].allRecords) \cap IdsOf(Groups[l].allRecords) = {}
  /\ Planned =>
       \A i, j \in 1..Len(mutations) :
         i # j => /\ mutations[i].meta.pageId # mutations[j].meta.pageId
                  /\ mutations[i].url # mutations[j].url

\* a plan of two groups: two updates and two archives
C10_Witness ==
  /\ Planned
  /\ Len(Groups) = 2
  /\ Len(mutations) = 4
  /\ Len(UpdatesOf(0)) = 1 /\ Len(UpdatesOf(1)) = 1
  /\ Len(ArchivesOf(0)) = 1 /\ Len(ArchivesOf(1)) = 1

\* ------------------------------------------------------------------------
\* Vocabulary of the executed pipeline
\* ------------------------------------------------------------------------
Reported == pc = "reported"

\* no node of the workflow can run any more
AtRest == ~ENABLED NextPipeline

\* no two pages of the store hold the same usable identity key
NoDuplicateKeys ==
  \A i, j \in 1..Len(store) :
    i # j => \/ KeyOfPage(store[i]) = <<>>
             \/ KeyOfPage(store[i]) # KeyOfPage(store[j])

\* the positions of the mutations handed to the executor, and of those the
\* store rejected
Handed == 1..Len(limited)
Failed == {i \in 1..Len(responses) : responses[i].error # Undefined}
FailedOf(email) == {i \in Failed : limited[i].meta.email = email}

\* the merge entries of the report, and the entry of the group of a mutation
Entries == Tail(report)
EntriesOf(email) == SelectSeq(Entries, LAMBDA e : e.email = email)

\* ------------------------------------------------------------------------
\* C11: when the store is empty or holds no two records with the same
\* normalized identity key, the run ends with no mutation item, no request
\* and no error, and with the report that says no duplicates were found.
\* ------------------------------------------------------------------------
C11_NothingToDoIsReported ==
  (AtRest /\ NoDuplicateKeys) =>
    /\ mutations = <<>>
    /\ limited = <<>>
    /\ responses = <<>>
    /\ report = << [type |-> "summary", message |-> NoDuplicatesMessage] >>

\* ------------------------------------------------------------------------
\* C12: the executor attempts every mutation item it is given: once the
\* items are handed over, the run is never left with an item that has no
\* response and no request to come, whatever requests failed before it.
\* ------------------------------------------------------------------------
C12_EveryMutationAttempted ==
  pc \notin {"start", "fetched", "found", "planned", "limited"} =>
    /\ Len(responses) <= Len(limited)
    /\ Len(responses) < Len(limited) => ENABLED ExecuteOnNotion
    /\ pc \in {"executed", "combined", "reported"} => Len(responses) = Len(limited)

\* the update of the first group failed; the archive of the same group and
\* both requests of the second group were made after it
C12_Witness ==
  /\ pc = "executed"
  /\ Len(limited) = 4
  /\ limited[1].meta.action = "update_contact"
  /\ 1 \in Failed
  /\ Len(responses) = 4
  /\ {2, 3, 4} \cap Failed = {}
  /\ limited[3].meta.groupIdx # limited[1].meta.groupIdx

\* ------------------------------------------------------------------------
\* C13: in the report every mutation item handed to the executor is
\* accounted for: an update is the destination of the entry of its group, an
\* archive is listed in the entry of its group; every failed item has
\* exactly one error in the entry of its group and none elsewhere, and the
\* error count of the summary is the number of failed items.
\* ------------------------------------------------------------------------
C13_EveryMutationAccounted ==
  Reported =>
    /\ \A i \in Handed :
         LET m == limited[i].meta
             own == EntriesOf(m.email)
             errorsOf(e) == SelectSeq(e.errors,
                                      LAMBDA x : x.action = m.action /\ x.pageId = m.pageId)
         IN /\ Len(own) = 1
            /\ m.action = "update_contact" => own[1].destId = <<m.pageId>>
            /\ m.action = "archive_source" =>
                 Len(SelectSeq(own[1].sourcesArchived, LAMBDA x : x.pageId = m.pageId)) = 1
            /\ Len(errorsOf(own[1])) = (IF i \in Failed THEN 1 ELSE 0)
            /\ \A k \in 1..Len(Entries) :
                 Entries[k].email # m.email => Len(errorsOf(Entries[k])) = 0
    /\ \A k \in 1..Len(Entries) :
         Len(Entries[k].errors) = Cardinality(FailedOf(Entries[k].email))
    /\ report[1].errors = Cardinality(Failed)

\* a failed update in one group and a failed archive in the other, each
\* reported once
C13_Witness ==
  /\ Reported
  /\ Len(Entries) = 2
  /\ Cardinality(Failed) = 2
  /\ \E i, j \in Failed :
       /\ limited[i].meta.action = "update_contact"
       /\ limited[j].meta.action = "archive_source"
       /\ limited[i].meta.groupIdx # limited[j].meta.groupIdx
  /\ report[1].errors = 2

\* ------------------------------------------------------------------------
\* C14: the recordsArchived of the summary and the sourcesArchived of every
\* entry cover exactly the sources whose archive request succeeded; a
\* source whose request failed is neither counted nor listed.
\* ------------------------------------------------------------------------
C14_ArchivedAreTheSucceeded ==
  Reported =>
    LET archived == {i \in Handed \ Failed : limited[i].meta.action = "archive_source"}
    IN /\ report[1].recordsArchived = Cardinality(archived)
       /\ \A k \in 1..Len(Entries) :
            {Entries[k].sourcesArchived[n].pageId : n \in 1..Len(Entries[k].sourcesArchived)}
              = {limited[i].meta.pageId : i \in {a \in archived :
                                                   limited[a].meta.email = Entries[k].email}}

\* ------------------------------------------------------------------------
\* C15: the status of a report entry is 'success' exactly when no mutation
\* item of its group failed and 'partial_failure' otherwise, whatever
\* happened to the items of the other groups.
\* ------------------------------------------------------------------------
C15_StatusPerGroup ==
  Reported =>
    \A k \in 1..Len(Entries) :
      /\ Entries[k].status \in {"success", "partial_failure"}
      /\ Entries[k].status = "success" <=> FailedOf(Entries[k].email) = {}

\* of two groups one has a failed item and the other has none
C15_Witness ==
  /\ Reported
  /\ Len(Entries) = 2
  /\ \E k, l \in 1..2 :
       /\ Entries[k].status = "success"
       /\ Entries[l].status = "partial_failure"
       /\ FailedOf(Entries[k].email) = {}
       /\ FailedOf(Entries[l].email) # {}

\* ------------------------------------------------------------------------
\* C16: the sourceRecord of every archive_source item holds every FIELD_MAP
\* attribute of the source page, and the backup row built for it keeps
\* every attribute value of that sourceRecord (the Tags as joined text).
\* ------------------------------------------------------------------------
StorePage(id) == store[CHOOSE i \in 1..Len(store) : store[i].id = id]

KeptInRow(rowValue, value) ==
  IF value.t = "array" THEN rowValue = Str(Join(value.v)) ELSE rowValue = value

C16_BackupKeepsSnapshot ==
  pc \in {"backedUp", "executed", "combined", "reported"} =>
    \A i \in 1..Len(limited) :
      limited[i].meta.action = "archive_source" =>
        LET snapshot == limited[i].meta.sourceRecord
            page == StorePage(limited[i].meta.pageId)
            rows == SelectSeq(backup, LAMBDA row : row.id = snapshot.id)
        IN /\ \A f \in Range(FIELD_MAP) :
                /\ f.key \in DOMAIN snapshot
                /\ snapshot[f.key] = Coalesce(page[f.notionKey], Str(<<>>))
           /\ Len(rows) = 1
           /\ \A f \in Range(FIELD_MAP) :
                hasValue(snapshot[f.key]) =>
                  /\ f.key \in DOMAIN rows[1]
                  /\ KeptInRow(rows[1][f.key], snapshot[f.key])

\* ------------------------------------------------------------------------
\* Vocabulary of the input defects and of the written properties
\* ------------------------------------------------------------------------

\* null, undefined, a string of nothing but blanks, an empty collection
IsEmptyValue(val) ==
  \/ val.t \in {"null", "undefined"}
  \/ val.t = "string" /\ Trim(val.v) = <<>>
  \/ val.t = "array" /\ val.v = <<>>

Keyless(j) == KeyOfPage(j) = <<>>

\* the pages of the input the records of the group at index k came from
PagesOf(k) == {PageOf(r) : r \in Range(Groups[k].allRecords)}

\* whether some page of the group holds a value for the attribute written
\* as prop
HeldInGroup(k, prop) ==
  \/ \E f \in Range(FIELD_MAP) :
       f.prop = prop /\ \E j \in PagesOf(k) : ~IsEmptyValue(j[f.notionKey])
  \/ prop = "Papers" /\ \E j \in PagesOf(k) : PapersOfPage(j) # {}

PolicyProps == {f.prop : f \in Range(FIELD_MAP)} \cup {"Papers"}

\* a written property without content
WrittenEmpty(p) ==
  IF p.t \in {"multi_select", "relation"}
  THEN p.v = <<>> \/ \E e \in Range(p.v) : e = ""
  ELSE Trim(p.v) = <<>>

\* ------------------------------------------------------------------------
\* C17: a record without a usable identity key (Email and Identifier
\* missing, empty or blank) is in no group and is the target of no mutation
\* item, and the groups are the ones the remaining records form without it.
\* ------------------------------------------------------------------------
C17_KeylessRecordsSkipped ==
  /\ Found =>
       /\ \A i \in 1..Len(items) :
            Keyless(items[i]) =>
              \A k \in 1..Len(Groups) : items[i].id \notin IdsOf(Groups[k].allRecords)
       /\ plan = findDuplicates(SelectSeq(items, LAMBDA j : ~Keyless(j)))
  /\ Planned =>
       \A i \in 1..Len(items) :
         Keyless(items[i]) =>
           \A n \in 1..Len(mutations) :
             /\ mutations[n].meta.pageId # items[i].id
             /\ mutations[n].url # items[i].id

\* a record with a blank Email next to a group of two records
C17_Witness ==
  /\ Planned
  /\ Len(Groups) = 1
  /\ Len(mutations) = 2
  /\ \E i \in 1..Len(items) :
       /\ items[i].property_email = Str(<<" ">>)
       /\ Keyless(items[i])

\* ------------------------------------------------------------------------
\* C18: a record whose createdAt is missing or does not parse is skipped:
\* it is in no group, neither as destination nor as source, it is the
\* target of no mutation item, and no merged scalar is taken from it alone.
\* ------------------------------------------------------------------------
C18_UnparsableTimestampSkipped ==
  /\ Found =>
       \A k \in 1..Len(Groups) :
         \A r \in Range(Groups[k].allRecords) : Parseable(r)
  /\ Planned =>
       /\ \A n \in 1..Len(mutations) :
            items[PositionOf(mutations[n].meta.pageId)].property_created_time # Undefined
       /\ \A k \in 1..Len(Groups) :
            \A f \in ScalarFields :
              f.prop \in DOMAIN PropsOf(k) /\ HeldInGroup(k, f.prop) =>
                \E r \in Range(Groups[k].allRecords) :
                  /\ Parseable(r)
                  /\ r[f.notionKey].t = "string"
                  /\ r[f.notionKey].v = PropsOf(k)[f.prop].v

\* ------------------------------------------------------------------------
\* C19 as claimed: an attribute for which no record of the group holds a
\* non-empty value is left out of the properties of the update, and no
\* attribute is written with an empty value.
\* ------------------------------------------------------------------------
C19_NoValueOmitted ==
  Planned =>
    \A k \in 1..Len(Groups) :
      /\ \A prop \in PolicyProps :
           ~HeldInGroup(k, prop) => prop \notin DOMAIN PropsOf(k)
      /\ \A prop \in DOMAIN PropsOf(k) : ~WrittenEmpty(PropsOf(k)[prop])

\* C19 as amended: an attribute for which no record of the group holds a
\* non-empty value is left out of the properties of the update, except
\* Email Marketing, which is then written as "Subscribed"; no attribute is
\* written with an empty value.
C19_NoValueOmittedButDefault ==
  Planned =>
    \A k \in 1..Len(Groups) :
      /\ \A prop \in PolicyProps :
           ~HeldInGroup(k, prop) =>
             IF prop = "Email Marketing"
             THEN /\ prop \in DOMAIN PropsOf(k)
                  /\ PropsOf(k)[prop] = [t |-> "select", v |-> Subscribed.v]
             ELSE prop \notin DOMAIN PropsOf(k)
      /\ \A prop \in DOMAIN PropsOf(k) : ~WrittenEmpty(PropsOf(k)[prop])

\* every record of a group holds a blank Email Marketing or an empty Tags
\* collection: the one is written as the default, the other is left out
C19_Witness ==
  /\ Planned
  /\ \E k \in 1..Len(Groups) :
       \/ /\ \A j \in PagesOf(k) : j.property_email_marketing = Str(<<" ">>)
          /\ PropsOf(k)["Email Marketing"].v = Subscribed.v
          /\ "First name" \notin DOMAIN PropsOf(k)
       \/ /\ \A j \in PagesOf(k) : j.property_tags = Arr(<<>>)
          /\ "Tags" \notin DOMAIN PropsOf(k)

\* ------------------------------------------------------------------------
\* C20 as claimed: the properties of an update hold only attributes whose
\* merged value differs from the value the destination had before.
\* ------------------------------------------------------------------------
SameAsDestination(k, f) ==
  LET dest == PageOf(Groups[k].dest)
      sent == PropsOf(k)[f.prop]
  IN IF f.apiType = "multi_select"
     THEN TagsOfPage(dest) = Range(sent.v)
     ELSE dest[f.notionKey].t = "string" /\ dest[f.notionKey].v = sent.v

C20_OnlyChangedSent ==
  Planned =>
    \A k \in 1..Len(Groups) :
      /\ \A f \in Range(FIELD_MAP) :
           f.prop \in DOMAIN PropsOf(k) => ~SameAsDestination(k, f)
      /\ "Papers" \in DOMAIN PropsOf(k) =>
           PapersOfPage(PageOf(Groups[k].dest)) # Range(PropsOf(k)["Papers"].v)

\* C20 as amended: the properties of an update hold every attribute for
\* which some record of the group holds a non-empty value, whether or not
\* the merged value differs from the value the destination had before,
\* next to Email Marketing and Identifier, which are always sent; only the
\* attributes no record holds a value for are left out.
C20_EveryHeldAttributeSent ==
  Planned =>
    \A k \in 1..Len(Groups) :
      DOMAIN PropsOf(k)
        = {prop \in PolicyProps : HeldInGroup(k, prop)} \cup {"Email Marketing", "Identifier"}

\* a destination that already holds the merged First name gets it sent
\* again, in an update that changes no attribute
C20_Witness ==
  /\ Planned
  /\ \E k \in 1..Len(Groups) :
       LET dest == PageOf(Groups[k].dest)
       IN /\ dest.property_first_name.t = "string"
          /\ "First name" \in DOMAIN PropsOf(k)
          /\ PropsOf(k)["First name"].v = dest.property_first_name.v
          /\ "first_name" \notin Range(UpdatesOf(k - 1)[1].meta.fieldsMerged)

\* ------------------------------------------------------------------------
\* Vocabulary of the test set
\* ------------------------------------------------------------------------
\* Limit to Test Set has run, enabled or disabled
Sampled == pc \in {"limited", "backedUp", "executed", "combined", "reported"}

\* the groupIdx values of a list of mutation items
GroupIdxs(list) == {list[i].meta.groupIdx : i \in 1..Len(list)}

\* the kinds of mutation a list holds for one group, and for all groups
KindsOf(list, gi) ==
  {list[i].meta.action : i \in {j \in 1..Len(list) : list[j].meta.groupIdx = gi}}
Kinds(list) == {list[i].meta.action : i \in 1..Len(list)}

\* a mutation item without the two marks of the test run
Untagged(item) ==
  [item EXCEPT !.meta = [k \in DOMAIN @ \ {"testMode", "testSummary"} |-> @[k]]]

\* the items of a list without the marks, and the items of some groups
UntaggedAll(list) == [i \in 1..Len(list) |-> Untagged(list[i])]
OfGroups(list, gis) == SelectSeq(list, LAMBDA m : m.meta.groupIdx \in gis)

\* every item carries the marks of the test run
TaggedAll(list) ==
  \A i \in 1..Len(list) : "testMode" \in DOMAIN list[i].meta /\ list[i].meta.testMode

\* ------------------------------------------------------------------------
\* C21: with the two kinds update_contact and archive_source, when at least
\* two groups of the plan each hold both kinds, the enabled Limit to Test
\* Set keeps the items of exactly one group, and every item it returns
\* carries a summary that names no kind as not covered. (Disabled, the
\* node passes the plan on as it is.)
\* ------------------------------------------------------------------------
C21_OneGroupCoversAll ==
  (/\ Sampled
   /\ Cardinality({gi \in GroupIdxs(mutations) :
                     KindsOf(mutations, gi) = Range(allActionTypes)}) >= 2)
    => \/ limited = mutations
       \/ /\ \E gi \in GroupIdxs(mutations) :
                UntaggedAll(limited) = OfGroups(mutations, {gi})
          /\ TaggedAll(limited)
          /\ \A i \in 1..Len(limited) :
                /\ limited[i].meta.testSummary.notCovered = <<>>
                /\ limited[i].meta.testSummary.groups =
                     <<1, Cardinality(GroupIdxs(mutations))>>

\* a test run on a plan of two groups has kept one of them
C21_Witness ==
  /\ pc = "limited"
  /\ Cardinality(GroupIdxs(mutations)) = 2
  /\ Cardinality(GroupIdxs(limited)) = 1
  /\ TaggedAll(limited)
  /\ limited[1].meta.testSummary.notCovered = <<>>

\* ------------------------------------------------------------------------
\* C22: for any non-empty list of mutation items the enabled Limit to Test
\* Set selects groups such that (a) they are at most MAX_GROUPS = 3, (b)
\* they hold every kind of mutation the input holds, (c) no smaller set of
\* groups holds all those kinds; and it returns the input items of the
\* selected groups, all of them, in the order of the input (each with the
\* marks of the test run).
\* ------------------------------------------------------------------------
C22_SmallestCoveringSelection ==
  (pc = "limited" /\ mutations # <<>>)
    => LET selected == GroupIdxs(limited)
       IN /\ Cardinality(selected) <= MAX_GROUPS
          /\ Kinds(limited) = Kinds(mutations)
          /\ \A gis \in SUBSET GroupIdxs(mutations) :
                Kinds(OfGroups(mutations, gis)) = Kinds(mutations)
                  => Cardinality(gis) >= Cardinality(selected)
          /\ UntaggedAll(limited) = OfGroups(mutations, selected)
          /\ TaggedAll(limited)

\* three groups, none with both kinds: two of them were selected, and a
\* group of the input was left out
C22_Witness ==
  /\ pc = "limited"
  /\ Cardinality(GroupIdxs(mutations)) = 3
  /\ \A gi \in GroupIdxs(mutations) : Cardinality(KindsOf(mutations, gi)) = 1
  /\ Cardinality(GroupIdxs(limited)) = 2
  /\ Len(limited) < Len(mutations)

\* ------------------------------------------------------------------------
\* C23: when the read of the snapshot has failed maxTries times, the
\* execution has ended before planning: Find Duplicates, Build Merge Plan,
\* Limit to Test Set, Build Backup CSV and Execute on Notion have not run
\* and cannot run, and no request has been sent to the store.
\* ------------------------------------------------------------------------
C23_ReadFailureAborts ==
  attempts.read >= maxTries
    => /\ pc = "readFailed"
       /\ items = <<>> /\ plan = <<>> /\ mutations = <<>> /\ limited = <<>>
       /\ backup = <<>> /\ responses = <<>> /\ combined = <<>> /\ report = <<>>
       /\ attempts.execute = 0 /\ attempts.accepted = {}
       /\ AtRest

\* the read of a store that holds duplicates has failed for the last time
C23_Witness ==
  /\ pc = "readFailed"
  /\ attempts.read = maxTries
  /\ \E i, j \in 1..Len(store) :
       i # j /\ store[i].property_email = store[j].property_email

\* ------------------------------------------------------------------------
\* Vocabulary of the marks of change
\* ------------------------------------------------------------------------
\* fieldsMerged and relationsChanged of the update_contact item of the group
\* at index k
FieldsMerged(k) == Range(UpdatesOf(k - 1)[1].meta.fieldsMerged)
RelationsChanged(k) == Range(UpdatesOf(k - 1)[1].meta.relationsChanged)

\* the records of the group at index k that hold a value for an attribute
Holders(k, f) == {r \in Range(Groups[k].allRecords) : hasValue(r[f.notionKey])}

\* ------------------------------------------------------------------------
\* C24: a scalar attribute for which the merge chose a value among the
\* records of the group is listed in fieldsMerged exactly when that value
\* differs from the value the destination held before (no value, null, the
\* empty string and the empty collection being the same); so it is not
\* listed when a source supplies the value the destination already holds.
\* ------------------------------------------------------------------------
C24_MarkedIffValueDiffers ==
  Planned =>
    \A k \in 1..Len(Groups) :
      \A f \in ScalarFields :
        Holders(k, f) # {} =>
          (f.key \in FieldsMerged(k) <=> ~SameAsDestination(k, f))

\* ------------------------------------------------------------------------
\* C25: the Tags (in fieldsMerged) and the relation (in relationsChanged)
\* are marked changed exactly when the union over the records of the group
\* has more elements than the set the destination held, which is exactly
\* when the union holds an element the destination did not hold; entries
\* the destination's collection repeats make no difference.
\* ------------------------------------------------------------------------
C25_MarkedIffUnionGrew ==
  Planned =>
    \A k \in 1..Len(Groups) :
      LET dest == PageOf(Groups[k].dest)
          tags == UNION {TagsOfPage(j) : j \in PagesOf(k)}
          papers == UNION {PapersOfPage(j) : j \in PagesOf(k)}
      IN /\ "tags" \in FieldsMerged(k)
              <=> Cardinality(tags) > Cardinality(TagsOfPage(dest))
         /\ "tags" \in FieldsMerged(k) <=> tags \ TagsOfPage(dest) # {}
         /\ "Papers" \in RelationsChanged(k)
              <=> Cardinality(papers) > Cardinality(PapersOfPage(dest))
         /\ "Papers" \in RelationsChanged(k) <=> papers \ PapersOfPage(dest) # {}

\* the destination's collection repeats an entry, a source adds one, and
\* the union is no longer than the destination's list: marked all the same
C25_Witness ==
  /\ Planned
  /\ \E k \in 1..Len(Groups) :
       LET dest == PageOf(Groups[k].dest)
       IN \/ /\ dest.property_tags.t = "array"
             /\ Len(dest.property_tags.v) > Cardinality(TagsOfPage(dest))
             /\ "tags" \in FieldsMerged(k)
             /\ Len(PropsOf(k)["Tags"].v) <= Len(dest.property_tags.v)
          \/ /\ dest.property_papers.t = "array"
             /\ Len(dest.property_papers.v) > Cardinality(PapersOfPage(dest))
             /\ "Papers" \in RelationsChanged(k)
             /\ Len(PropsOf(k)["Papers"].v) <= Len(dest.property_papers.v)

\* ------------------------------------------------------------------------
\* C29: merging erases nothing the destination holds: a scalar attribute
\* for which the destination has a non-empty value is written with a
\* non-empty value, and that value is the destination's own unless a
\* record of the group with a strictly later createdAt holds the written
\* value; a record created at the same time never replaces it.
\* ------------------------------------------------------------------------
C29_DestinationValueKept ==
  Planned =>
    \A k \in 1..Len(Groups) :
      \A f \in ScalarFields :
        LET dest == Groups[k].dest
        IN hasValue(dest[f.notionKey]) =>
             /\ f.prop \in DOMAIN PropsOf(k)
             /\ ~WrittenEmpty(PropsOf(k)[f.prop])
             /\ \/ PropsOf(k)[f.prop].v = dest[f.notionKey].v
                \/ \E r \in Holders(k, f) :
                     /\ r[f.notionKey].v = PropsOf(k)[f.prop].v
                     /\ Parseable(r) /\ Parseable(dest)
                     /\ TimeOf(r)[1] > TimeOf(dest)[1]

\* the destination holds a first name, a source created at the same time
\* holds another one, and the destination's is the one written
C29_Witness ==
  /\ Planned
  /\ \E k \in 1..Len(Groups) :
       LET dest == Groups[k].dest
       IN /\ hasValue(dest.property_first_name)
          /\ \E r \in Range(Groups[k].sources) :
               /\ hasValue(r.property_first_name)
               /\ r.property_first_name # dest.property_first_name
               /\ Parseable(r) /\ Parseable(dest)
               /\ TimeOf(r) = TimeOf(dest)
          /\ PropsOf(k)["First name"].v = dest.property_first_name.v

\* ------------------------------------------------------------------------
\* Vocabulary of the join
\* ------------------------------------------------------------------------
\* the results with those at positions i and j in each other's place
Swapped(results, i, j) ==
  [k \in 1..Len(results) |->
     IF k = i THEN results[j] ELSE IF k = j THEN results[i] ELSE results[k]]

\* ------------------------------------------------------------------------
\* C26: a result is attributed to the mutation item that produced it by
\* the group and the page of that item, so the report does not depend on
\* the order in which the results arrive: with two results in each other's
\* place the report is the same.
\* ------------------------------------------------------------------------
C26_ReportIndependentOfOrder ==
  pc \in {"executed", "combined", "reported"} =>
    \A i, j \in 1..Len(responses) :
      buildReport(combineByPosition(Swapped(responses, i, j), limited))
        = buildReport(combineByPosition(responses, limited))

\* C26 as the code has it: the result at a position is joined with the
\* mutation item at the same position of the list handed to the executor,
\* which is the item whose request produced it, so every error of the
\* report stands in the entry of the group of a failed item and names its
\* page and its action.
C26_AttributedByPosition ==
  pc \in {"combined", "reported"} =>
    /\ Len(combined) = Len(limited)
    /\ Len(combined) = Len(responses)
    /\ \A i \in 1..Len(combined) :
         /\ combined[i].meta = limited[i].meta
         /\ combined[i].url = limited[i].url
         /\ combined[i].error = responses[i].error
    /\ Reported =>
         \A k \in 1..Len(Entries) :
           \A x \in Range(Entries[k].errors) :
             \E i \in Failed :
               /\ limited[i].meta.email = Entries[k].email
               /\ limited[i].meta.pageId = x.pageId
               /\ limited[i].meta.action = x.action

\* the first request was accepted and the last one rejected: the one error
\* of the report names the page of the last item
C26_Witness ==
  /\ Reported
  /\ Len(responses) >= 3
  /\ Failed = {Len(responses)}
  /\ \E k \in 1..Len(Entries) :
       /\ Len(Entries[k].errors) = 1
       /\ Entries[k].errors[1].pageId = limited[Len(limited)].meta.pageId

\* ------------------------------------------------------------------------
\* C27: a mutation item is never modified after Build Merge Plan created
\* it: every item Limit to Test Set hands on is an item of the plan as it
\* was, and so is every item joined with a result for the report.
\* ------------------------------------------------------------------------
C27_IntentsNeverModified ==
  Sampled =>
    /\ \A i \in 1..Len(limited) : limited[i] \in Range(mutations)
    /\ \A i \in 1..Len(combined) :
         \E m \in Range(mutations) :
           combined[i].url = m.url /\ combined[i].body = m.body /\ combined[i].meta = m.meta

\* C27 as the code has it: the enabled Limit to Test Set adds _testMode and
\* _testSummary to the _meta of every item it hands on and changes nothing
\* else; the items handed on are the items of the plan of the selected
\* groups, in the order of the plan; the backup is the one of those plan
\* items, and the items joined for the report have the url, the body and
\* the _meta of the items handed on.
C27_ModifiedOnlyByMarks ==
  Sampled =>
    /\ UntaggedAll(limited) = OfGroups(mutations, GroupIdxs(limited))
    /\ limited = mutations \/ TaggedAll(limited)
    /\ pc # "limited" =>
         backup = buildBackup(OfGroups(mutations, GroupIdxs(limited)))
    /\ \A i \in 1..Len(combined) :
         /\ combined[i].url = limited[i].url
         /\ combined[i].body = limited[i].body
         /\ combined[i].meta = limited[i].meta

\* a test run has left a group out, and the report was built from items
\* that carry the marks
C27_Witness ==
  /\ Reported
  /\ Len(limited) < Len(mutations)
  /\ TaggedAll(combined)
  /\ \A i \in 1..Len(limited) : limited[i] \notin Range(mutations)

\* ------------------------------------------------------------------------
\* Vocabulary of the backup
\* ------------------------------------------------------------------------
\* the archive items among the items handed on by Limit to Test Set
ArchivesHanded == SelectSeq(limited, LAMBDA m : m.meta.action = "archive_source")

\* the positions of the archive requests the store has accepted, in the
\* run whose results are kept and in the runs that were dropped
Archived ==
  {i \in Handed : /\ limited[i].meta.action = "archive_source"
                   /\ \/ i \in attempts.accepted
                      \/ i <= Len(responses) /\ responses[i].error = Undefined}

\* ------------------------------------------------------------------------
\* C28: the backup has exactly one row per archive_source item handed on by
\* Limit to Test Set, in their order, and it is there before the first
\* request is sent and whatever the results are; so every page the store
\* has archived has a row in the backup, also when other requests fail and
\* in a test run.
\* ------------------------------------------------------------------------
C28_BackupCoversArchives ==
  /\ pc \in {"backedUp", "executed", "combined", "reported"} =>
       /\ Len(backup) = Len(ArchivesHanded)
       /\ \A k \in 1..Len(backup) : backup[k].id = ArchivesHanded[k].meta.pageId
  /\ \A i \in Archived :
       \E k \in 1..Len(backup) : backup[k].id = limited[i].meta.pageId
  /\ (responses # <<>> \/ attempts.execute > 0) => pc # "limited"

\* a test run in which the update was rejected and two archive requests
\* were accepted: both pages have their row
C28_Witness ==
  /\ Reported
  /\ TaggedAll(limited)
  /\ \E i \in Failed : limited[i].meta.action = "update_contact"
  /\ Cardinality(Archived) = 2
  /\ Len(backup) = 2

\* ------------------------------------------------------------------------
\* C30: Execute on Notion sends the request of a mutation item at most
\* maxTries = 3 times; the result it hands on for an item is a failure only
\* if every request sent for the item failed, so an item with an accepted
\* request is handed on as a success; and the node ends with exactly one
\* result per item.
\* ------------------------------------------------------------------------
C30_FailedOnlyIfEveryAttemptFailed ==
  /\ attempts.execute + 1 <= maxTries
  /\ pc \in {"combined", "reported"} =>
       /\ Len(responses) = Len(limited)
       /\ \A i \in Failed : i \notin attempts.accepted

====
